---- MODULE Spec2Model ----
(***************************************************************************)
(* Model of parser/v2/scriptparser.go: scriptElementParser.Parse and its   *)
(* helpers (hasJavaScriptType, isStartOfRegex, jsCharacter, jsComment).    *)
(*                                                                         *)
(* Text is a sequence of one-character strings.  The cursor pos is the     *)
(* 0-based index of parse.Input, so the character under the cursor is      *)
(* input[pos + 1].  A Go pointer is a sequence of length 0 (nil) or 1.     *)
(***************************************************************************)
EXTENDS Integers, Sequences, FiniteSets, TLC

(***************************************************************************)
(* Bounds of the explored inputs.                                          *)
(***************************************************************************)
MaxPieces == 3
MaxAttrs == 2

(***************************************************************************)
(* Text helpers.                                                           *)
(***************************************************************************)
\* strings.HasPrefix(s[i:], p)
HasPrefixAt(s, i, p) ==
    /\ 0 <= i
    /\ i + Len(p) <= Len(s)
    /\ SubSeq(s, i + 1, i + Len(p)) = p

\* strings.HasSuffix(s, p)
HasSuffix(s, p) ==
    /\ Len(p) <= Len(s)
    /\ SubSeq(s, Len(s) - Len(p) + 1, Len(s)) = p

\* s[i:j] of Go (0-based, j exclusive)
Slice(s, i, j) == SubSeq(s, i + 1, j)

\* The least index k in i..Len(s) at which HasPrefixAt(s, k, p), or -1.
RECURSIVE IndexFrom(_, _, _)
IndexFrom(s, i, p) ==
    IF i + Len(p) > Len(s) THEN -1
    ELSE IF HasPrefixAt(s, i, p) THEN i
    ELSE IndexFrom(s, i + 1, p)

UpperLetters ==
    <<"A","B","C","D","E","F","G","H","I","J","K","L","M",
      "N","O","P","Q","R","S","T","U","V","W","X","Y","Z">>
LowerLetters ==
    <<"a","b","c","d","e","f","g","h","i","j","k","l","m",
      "n","o","p","q","r","s","t","u","v","w","x","y","z">>

UpperSet == {UpperLetters[i] : i \in 1..26}
FoldTable == [c \in UpperSet |-> LowerLetters[CHOOSE i \in 1..26 : UpperLetters[i] = c]]

\* Simple case folding of one character.
FoldChar(c) == IF c \in UpperSet THEN FoldTable[c] ELSE c

Fold(s) == [i \in 1..Len(s) |-> FoldChar(s[i])]

\* strings.EqualFold
EqualFold(s, t) == Fold(s) = Fold(t)

\* unicode.White_Space / unicode.IsSpace, restricted to the characters used.
WhiteSpace == {" ", "\t", "\n", "\r"}

\* parse.OptionalWhitespace: the cursor after the run of whitespace at i.
RECURSIVE SkipWhitespace(_, _)
SkipWhitespace(s, i) ==
    IF i < Len(s) /\ s[i + 1] \in WhiteSpace THEN SkipWhitespace(s, i + 1) ELSE i

(***************************************************************************)
(* Literals of the source.                                                 *)
(***************************************************************************)
jsQuoteNone == ""
jsQuoteSingle == "'"
jsQuoteDouble == "\""
\* The backquote character, which cannot be written inside a string here.
jsQuoteBacktick == "BACKTICK"

jsEndTag == <<"<", "/", "s", "c", "r", "i", "p", "t", ">">>
ScriptName == <<"s", "c", "r", "i", "p", "t">>
TypeKey == <<"t", "y", "p", "e">>

javaScriptTypeAttributeValues ==
    << <<>>,
       <<"t","e","x","t","/","j","a","v","a","s","c","r","i","p","t">>,
       <<"j","a","v","a","s","c","r","i","p","t">>,
       <<"m","o","d","u","l","e">> >>

keywords ==
    << <<"r","e","t","u","r","n">>, <<"y","i","e","l","d">>, <<"c","a","s","e">>,
       <<"d","e","l","e","t","e">>, <<"d","o">>, <<"e","l","s","e">>, <<"i","n">>,
       <<"i","n","s","t","a","n","c","e","o","f">>, <<"n","e","w">>,
       <<"t","h","r","o","w">>, <<"t","y","p","e","o","f">>, <<"v","o","i","d">> >>

regexPrecedingChars == {"(", ",", "=", ":", "[", "!", "&", "|", "?", "{", ";"}

ErrNil == "nil"
ErrEndTag == "<script>: expected end tag not present"
ErrContent == "failed to parse script content"
ErrGoCode == "expression: missing close double braces"
ErrAttribute == "missing closing quote on attribute"

(***************************************************************************)
(* Collaborators of Parse that live in other files of the package: the     *)
(* element name, attribute and Go expression grammars and the node         *)
(* constructors.  Each grammar returns [ok, err, pos, ...] like a          *)
(* parse.Parser: ok = matched, err = error, pos = cursor afterwards.       *)
(***************************************************************************)
NameChars ==
    {UpperLetters[i] : i \in 1..26} \cup {LowerLetters[i] : i \in 1..26} \cup {"-"}

RECURSIVE NameEnd(_, _)
NameEnd(s, i) ==
    IF i < Len(s) /\ s[i + 1] \in NameChars THEN NameEnd(s, i + 1) ELSE i

\* elementNameParser: the run of name characters at the cursor.
elementNameParser(s, i) ==
    LET j == NameEnd(s, i) IN
    IF j > i
    THEN [ok |-> TRUE, err |-> ErrNil, pos |-> j, name |-> Slice(s, i, j)]
    ELSE [ok |-> FALSE, err |-> ErrNil, pos |-> i, name |-> <<>>]

ConstantAttribute(keyType, name, value) ==
    [type |-> "ConstantAttribute", keyType |-> keyType, Name |-> name, Value |-> value]
ExpressionAttribute(name) ==
    [type |-> "ExpressionAttribute", keyType |-> "ConstantAttributeKey",
     Name |-> name, Value |-> <<>>]
BoolConstantAttribute(name) ==
    [type |-> "BoolConstantAttribute", keyType |-> "ConstantAttributeKey",
     Name |-> name, Value |-> <<>>]

\* One attribute at the cursor: whitespace, a key (a name, or an expression
\* key {..}), then nothing (boolean attribute), ="value" (constant
\* attribute) or ={..} (expression attribute).  A quoted value that is not
\* closed is an error.
attributeParser(s, i) ==
    LET k0 == SkipWhitespace(s, i)
        exprKey == HasPrefixAt(s, k0, <<"{">>)
        keyEnd == IF exprKey
                  THEN (LET c == IndexFrom(s, k0, <<"}">>) IN IF c < 0 THEN k0 ELSE c + 1)
                  ELSE NameEnd(s, k0)
        keyType == IF exprKey THEN "ExpressionAttributeKey" ELSE "ConstantAttributeKey"
        name == Slice(s, k0, keyEnd)
        noMatch == [ok |-> FALSE, err |-> ErrNil, pos |-> i,
                    attr |-> BoolConstantAttribute(<<>>)]
    IN
    IF k0 = i \/ keyEnd = k0 THEN noMatch
    ELSE IF HasPrefixAt(s, keyEnd, <<"=", "\"">>)
    THEN LET q == IndexFrom(s, keyEnd + 2, <<"\"">>) IN
         IF q < 0
         THEN [ok |-> FALSE, err |-> ErrAttribute, pos |-> Len(s),
               attr |-> BoolConstantAttribute(<<>>)]
         ELSE [ok |-> TRUE, err |-> ErrNil, pos |-> q + 1,
               attr |-> ConstantAttribute(keyType, name, Slice(s, keyEnd + 2, q))]
    ELSE IF HasPrefixAt(s, keyEnd, <<"=", "{">>)
    THEN LET c == IndexFrom(s, keyEnd + 2, <<"}">>) IN
         IF c < 0 \/ exprKey THEN noMatch
         ELSE [ok |-> TRUE, err |-> ErrNil, pos |-> c + 1, attr |-> ExpressionAttribute(name)]
    ELSE IF exprKey THEN noMatch
    ELSE [ok |-> TRUE, err |-> ErrNil, pos |-> keyEnd, attr |-> BoolConstantAttribute(name)]

\* attributesParser: zero or more attributes; it fails only with an error.
RECURSIVE attributesParser(_, _)
attributesParser(s, i) ==
    LET a == attributeParser(s, i) IN
    IF a.err # ErrNil THEN [ok |-> FALSE, err |-> a.err, pos |-> a.pos, attrs |-> <<>>]
    ELSE IF ~a.ok THEN [ok |-> TRUE, err |-> ErrNil, pos |-> i, attrs |-> <<>>]
    ELSE LET rest == attributesParser(s, a.pos) IN
         [rest EXCEPT !.attrs = <<a.attr>> \o rest.attrs]

\* goCodeInJavaScript: {{ ... }} at the cursor.  An opened expression that is
\* never closed is an error.  text is the source text consumed.
goCodeInJavaScript(s, i) ==
    IF ~HasPrefixAt(s, i, <<"{", "{">>)
    THEN [ok |-> FALSE, err |-> ErrNil, pos |-> i, text |-> <<>>]
    ELSE LET c == IndexFrom(s, i + 2, <<"}", "}">>) IN
         IF c < 0
         THEN [ok |-> FALSE, err |-> ErrGoCode, pos |-> Len(s), text |-> <<>>]
         ELSE [ok |-> TRUE, err |-> ErrNil, pos |-> c + 2, text |-> Slice(s, i, c + 2)]

\* ScriptContents{Value: &s}
NewScriptContentsScriptCode(s) ==
    [Value |-> <<s>>, GoCode |-> <<>>, InsideStringLiteral |-> FALSE]

\* ScriptContents{GoCode: code, InsideStringLiteral: inside}
NewScriptContentsGo(code, inside) ==
    [Value |-> <<>>, GoCode |-> <<code>>, InsideStringLiteral |-> inside]

ZeroRange == [From |-> 0, To |-> 0]
NewRange(from, to) == [From |-> from, To |-> to]

(***************************************************************************)
(* hasJavaScriptType: the loop over attrs, from index k on.                *)
(***************************************************************************)
IsJavaScriptValue(v) ==
    \E k \in 1..Len(javaScriptTypeAttributeValues) :
        EqualFold(v, javaScriptTypeAttributeValues[k])

\* The loop without its return false: a type that is not JavaScript is passed over.
RECURSIVE hasJavaScriptTypeNoReturn(_, _)
hasJavaScriptTypeNoReturn(as, k) ==
    IF k > Len(as) THEN TRUE
    ELSE IF as[k].type # "ConstantAttribute" THEN hasJavaScriptTypeNoReturn(as, k + 1)
    ELSE IF as[k].keyType # "ConstantAttributeKey" THEN hasJavaScriptTypeNoReturn(as, k + 1)
    ELSE IF ~EqualFold(as[k].Name, TypeKey) THEN hasJavaScriptTypeNoReturn(as, k + 1)
    ELSE IF IsJavaScriptValue(as[k].Value) THEN TRUE
    ELSE hasJavaScriptTypeNoReturn(as, k + 1)

RECURSIVE hasJavaScriptTypeFrom(_, _)
hasJavaScriptTypeFrom(as, k) ==
    IF k > Len(as) THEN TRUE
    ELSE IF as[k].type # "ConstantAttribute" THEN hasJavaScriptTypeFrom(as, k + 1)
    ELSE IF as[k].keyType # "ConstantAttributeKey" THEN hasJavaScriptTypeFrom(as, k + 1)
    ELSE IF ~EqualFold(as[k].Name, TypeKey) THEN hasJavaScriptTypeFrom(as, k + 1)
    ELSE IsJavaScriptValue(as[k].Value)

hasJavaScriptType(as) == hasJavaScriptTypeFrom(as, 1)

(***************************************************************************)
(* isStartOfRegex.                                                         *)
(***************************************************************************)
TrimCutset == {" ", "\t", "\r", "\n"}

\* strings.TrimRight(s, " \t\r\n")
RECURSIVE TrimRight(_)
TrimRight(s) ==
    IF Len(s) > 0 /\ s[Len(s)] \in TrimCutset
    THEN TrimRight(SubSeq(s, 1, Len(s) - 1))
    ELSE s

\* A character outside ASCII: the letter a with a grave accent, U+00E0.
aGrave == "U+00E0"

\* The bytes of a Go string: the UTF-8 encoding of its characters.  An ASCII
\* byte is written as its character, another byte as its value.
Utf8(c) == IF c = aGrave THEN <<"0xC3", "0xA0">> ELSE <<c>>

RECURSIVE Bytes(_)
Bytes(s) == IF s = <<>> THEN <<>> ELSE Utf8(Head(s)) \o Bytes(Tail(s))

\* unicode.IsSpace(rune(b)) of a byte b: the Latin-1 branch of IsSpace,
\* restricted to the bytes used.
IsSpaceByte(b) == b \in {" ", "\t", "\n", "\r", "0x85", "0xA0"}

\* s[i] and len(s) of the source index bytes, so the text is taken as bytes.
isStartOfRegex(str) ==
    LET s == Bytes(TrimRight(str)) IN
    IF Len(s) = 0 THEN TRUE
    ELSE IF \E k \in 1..Len(keywords) :
                /\ HasSuffix(s, keywords[k])
                /\ \/ Len(s) = Len(keywords[k])
                   \/ IsSpaceByte(s[Len(s) - Len(keywords[k])])
         THEN TRUE
    ELSE s[Len(s)] \in regexPrecedingChars

(***************************************************************************)
(* jsCharacter and jsComment.  Each returns [ok, pos, text]: whether it    *)
(* matched at cursor i, the cursor afterwards and the text consumed.       *)
(***************************************************************************)
NoMatch(i) == [ok |-> FALSE, pos |-> i, text |-> <<>>]
Match(s, i, j) == [ok |-> TRUE, pos |-> j, text |-> Slice(s, i, j)]

\* parse.Any: the first alternative that matches.
ParseAny(rs) ==
    IF \E k \in 1..Len(rs) : rs[k].ok
    THEN rs[CHOOSE k \in 1..Len(rs) : rs[k].ok /\ \A j \in 1..(k - 1) : ~rs[j].ok]
    ELSE rs[1]

\* parse.AnyRune returning the character without moving the cursor.
AnyRuneNoAdvance(s, i) ==
    IF i < Len(s) THEN [ok |-> TRUE, pos |-> i, text |-> Slice(s, i, i + 1)] ELSE NoMatch(i)

\* parse.AnyRune
AnyRune(s, i) == IF i < Len(s) THEN Match(s, i, i + 1) ELSE NoMatch(i)

Digits == {"0", "1", "2", "3", "4", "5", "6", "7", "8", "9"}
hexDigit(c) == c \in Digits \cup {"a","b","c","d","e","f"} \cup {"A","B","C","D","E","F"}

\* hexDigit matches at each of the cursors i .. i + k - 1
HexRun(s, i, k) == i + k <= Len(s) /\ \A j \in 1..k : hexDigit(s[i + j])

RECURSIVE HexEnd(_, _)
HexEnd(s, i) == IF i < Len(s) /\ hexDigit(s[i + 1]) THEN HexEnd(s, i + 1) ELSE i

\* jsBackslashEscape consuming both characters but returning the backslash only.
jsBackslashEscapeFirst(s, i) ==
    IF HasPrefixAt(s, i, <<"\\">>) /\ i + 1 < Len(s)
    THEN [ok |-> TRUE, pos |-> i + 2, text |-> Slice(s, i, i + 1)]
    ELSE NoMatch(i)

jsBackslashEscape(s, i) ==
    IF HasPrefixAt(s, i, <<"\\">>) /\ i + 1 < Len(s) THEN Match(s, i, i + 2) ELSE NoMatch(i)

jsUnicodeEscape(s, i) ==
    IF HasPrefixAt(s, i, <<"\\", "u">>) /\ HexRun(s, i + 2, 4)
    THEN Match(s, i, i + 6) ELSE NoMatch(i)

jsHexEscape(s, i) ==
    IF HasPrefixAt(s, i, <<"\\", "x">>) /\ HexRun(s, i + 2, 2)
    THEN Match(s, i, i + 4) ELSE NoMatch(i)

jsExtendedUnicodeEscape(s, i) ==
    IF /\ HasPrefixAt(s, i, <<"\\", "u", "{">>)
       /\ HexRun(s, i + 3, 1)
       /\ HasPrefixAt(s, HexEnd(s, i + 3), <<"}">>)
    THEN Match(s, i, HexEnd(s, i + 3) + 1) ELSE NoMatch(i)

\* jsEscapedCharacter with the generic backslash rule tried last.
jsEscapedCharacterSpecificFirst(s, i) ==
    ParseAny(<<jsUnicodeEscape(s, i), jsHexEscape(s, i),
          jsExtendedUnicodeEscape(s, i), jsBackslashEscape(s, i)>>)

jsEscapedCharacter(s, i) ==
    ParseAny(<<jsBackslashEscape(s, i), jsUnicodeEscape(s, i),
          jsHexEscape(s, i), jsExtendedUnicodeEscape(s, i)>>)

jsCharacter(s, i) == ParseAny(<<jsEscapedCharacter(s, i), AnyRune(s, i)>>)

\* parse.NewLine at cursor i: the length of the line break there, or 0.
NewLineLen(s, i) ==
    IF HasPrefixAt(s, i, <<"\r", "\n">>) THEN 2
    ELSE IF HasPrefixAt(s, i, <<"\n">>) THEN 1
    ELSE 0

\* parse.StringUntil(jsEndOfSingleLineComment): the first cursor from i on
\* that is at a line break or at the end of the input.
\* LineEnd for a comment that an end tag ends as well.
RECURSIVE LineEndOrEndTag(_, _)
LineEndOrEndTag(s, i) ==
    IF i >= Len(s) \/ NewLineLen(s, i) > 0 \/ HasPrefixAt(s, i, jsEndTag) THEN i
    ELSE LineEndOrEndTag(s, i + 1)

RECURSIVE LineEnd(_, _)
LineEnd(s, i) ==
    IF i >= Len(s) \/ NewLineLen(s, i) > 0 THEN i ELSE LineEnd(s, i + 1)

\* jsSingleLineComment returning the text after the two slashes only.
jsSingleLineCommentBody(s, i) ==
    IF HasPrefixAt(s, i, <<"/", "/">>)
    THEN LET k == LineEnd(s, i + 2) IN
         [ok |-> TRUE, pos |-> k + NewLineLen(s, k),
          text |-> Slice(s, i + 2, k + NewLineLen(s, k))]
    ELSE NoMatch(i)

jsSingleLineComment(s, i) ==
    IF HasPrefixAt(s, i, <<"/", "/">>)
    THEN LET k == LineEnd(s, i + 2) IN Match(s, i, k + NewLineLen(s, k))
    ELSE NoMatch(i)

jsMultiLineComment(s, i) ==
    IF HasPrefixAt(s, i, <<"/", "*">>)
    THEN LET k == IndexFrom(s, i + 2, <<"*", "/">>)
             close == IF k < 0 THEN Len(s) ELSE k + 2
         IN Match(s, i, SkipWhitespace(s, close))
    ELSE NoMatch(i)

jsComment(s, i) == ParseAny(<<jsSingleLineComment(s, i), jsMultiLineComment(s, i)>>)

(***************************************************************************)
(* The opening tag: < script attributes whitespace >.  The result is what  *)
(* Parse has after the step that decides: ok and err as left by the last   *)
(* parser run, pos the cursor (the start again when a step failed).        *)
(***************************************************************************)
\* ParseOpenTag without pi.Seek: a failed step leaves the cursor where it is.
ParseOpenTagNoSeek(s, i) ==
    LET fail(ok, err, p) == [ok |-> ok, err |-> err, pos |-> p, attrs |-> <<>>, open |-> FALSE]
        nm == elementNameParser(s, i + 1)
        as == attributesParser(s, nm.pos)
        w == SkipWhitespace(s, as.pos)
    IN
    IF ~HasPrefixAt(s, i, <<"<">>) THEN fail(FALSE, ErrNil, i)
    ELSE IF nm.err # ErrNil \/ ~nm.ok THEN fail(nm.ok, nm.err, nm.pos)
    ELSE IF nm.name # ScriptName THEN fail(FALSE, ErrNil, nm.pos)
    ELSE IF as.err # ErrNil \/ ~as.ok THEN fail(as.ok, as.err, as.pos)
    ELSE IF ~HasPrefixAt(s, w, <<">">>) THEN fail(FALSE, ErrNil, w)
    ELSE [ok |-> TRUE, err |-> ErrNil, pos |-> w + 1, attrs |-> as.attrs, open |-> TRUE]

ParseOpenTag(s, i) ==
    LET fail(ok, err) == [ok |-> ok, err |-> err, pos |-> i, attrs |-> <<>>, open |-> FALSE]
        nm == elementNameParser(s, i + 1)
        as == attributesParser(s, nm.pos)
        w == SkipWhitespace(s, as.pos)
    IN
    IF ~HasPrefixAt(s, i, <<"<">>) THEN fail(FALSE, ErrNil)
    ELSE IF nm.err # ErrNil \/ ~nm.ok THEN fail(nm.ok, nm.err)
    ELSE IF nm.name # ScriptName THEN fail(FALSE, ErrNil)
    ELSE IF as.err # ErrNil \/ ~as.ok THEN fail(as.ok, as.err)
    ELSE IF ~HasPrefixAt(s, w, <<">">>) THEN fail(FALSE, ErrNil)
    ELSE [ok |-> TRUE, err |-> ErrNil, pos |-> w + 1, attrs |-> as.attrs, open |-> TRUE]

(***************************************************************************)
(* The inputs explored: text in front of the element, an opening tag and   *)
(* script content built from pieces.                                       *)
(***************************************************************************)
Prefixes == {<<>>, <<"a", "\n">>}

AttributePieces ==
    { <<" ","t","y","p","e","=","\"","m","o","d","u","l","e","\"">>,
      <<" ","T","Y","P","E","=","\"","M","o","d","u","l","e","\"">>,
      <<" ","t","y","p","e","=","\"","j","s","o","n","\"">>,
      <<" ","t","y","p","e","=","\"","\"">>,
      <<" ","t","y","p","e","=","{","t","}">>,
      <<" ","a","s","y","n","c">>,
      <<" ","{","k","}","=","\"","j","s","o","n","\"">>,
      <<" ","s","r","c","=","\"","t","y","p","e","\"">>,
      <<" ","t","y","p","e","=","\"","t","e","x","t","/","j","a","v","a","s","c","r","i","p","t","\"">>,
      <<" ","T","y","p","e","=","\"","J","A","V","A","S","C","R","I","P","T","\"">> }

ContentPieces ==
    { <<"a">>, <<"\n">>, <<"/">>, <<"\\">>, <<"\"">>, <<"'">>, <<"(">>,
      <<"/", "/">>, <<"/", "*">>, <<"*", "/">>,
      <<"{","{","n","}","}">>, jsEndTag }

\* The concatenations of at most k members of pieces.
RECURSIVE Concats(_, _)
Concats(pieces, k) ==
    IF k = 0 THEN {<<>>}
    ELSE LET shorter == Concats(pieces, k - 1) IN
         shorter \cup {p \o c : p \in pieces, c \in shorter}

OpenScript == <<"<","s","c","r","i","p","t">>

WellFormedOpenTags ==
    {OpenScript \o as \o gt : as \in Concats(AttributePieces, MaxAttrs),
                              gt \in {<<">">>, <<" ", ">">>}}

MalformedOpenTags ==
    { <<>>, <<"a">>, <<"<", ">">>, <<"<","d","i","v",">">>,
      <<"<","s","c","r","i","p","t","s",">">>, <<"<","S","c","r","i","p","t",">">>,
      OpenScript, <<"<","s","c","r","i","p","t","/",">">>,
      <<"<","s","c","r","i","p","t"," ","t","y","p","e","=","\"","m">> }

JavaScriptOpenTag == <<"<","s","c","r","i","p","t",">">>
RawTextOpenTag ==
    <<"<","s","c","r","i","p","t"," ","t","y","p","e","=","\"","j","s","o","n","\"",">">>

FewContents ==
    { <<"{", "{">>, <<"{","{","n","}","}">> \o jsEndTag \o jsEndTag }

Tails == {<<>>, jsEndTag}

\* Template literals and the escapes of jsEscapedCharacter.
QuotedContents ==
    { <<jsQuoteBacktick>>, <<jsQuoteBacktick, "'", jsQuoteBacktick>>,
      <<"'", jsQuoteBacktick, "'", jsQuoteBacktick>>,
      <<"/", jsQuoteBacktick, "/", jsQuoteBacktick>>,
      <<"\"", "\\", "\"", jsQuoteBacktick, "\"">> }

EscapedContents ==
    { <<"\\", "u", "1", "2", "3", "4", "a">>, <<"\\", "x", "4", "1", "a">>,
      <<"\\", "u", "{", "1", "f", "}", "a">>, <<"a", "\\", "u", "1">> }

\* Texts in front of a slash: keywords as whole words and as ends of longer
\* words, a number and a name.
BeforeSlash ==
    { <<"i","n">>, <<"a","i","n">>, <<" ","i","n"," ">>, <<aGrave,"i","n">>,
      <<"d","o","\n">>, <<"r","e","t","u","r","n">>, <<"1"," ">>, <<"x","\t">> }

Inputs ==
    [pre : Prefixes, rest : {o \o c : o \in WellFormedOpenTags \cup MalformedOpenTags,
                                      c \in FewContents}]
    \cup
    [pre : {<<>>}, rest : {JavaScriptOpenTag \o c \o t :
                              c \in Concats(ContentPieces, MaxPieces), t \in Tails}]
    \cup
    [pre : {<<>>}, rest : {RawTextOpenTag \o c \o t :
                              c \in Concats(ContentPieces, MaxPieces - 1), t \in Tails}]
    \cup
    [pre : {<<>>}, rest : {JavaScriptOpenTag \o c \o <<"/">> \o t :
                              c \in BeforeSlash, t \in Tails}]
    \cup
    [pre : {<<>>}, rest : {JavaScriptOpenTag \o c \o t :
                              c \in QuotedContents \cup EscapedContents, t \in Tails}]

(***************************************************************************)
(* State of one call of scriptElementParser.Parse.                         *)
(***************************************************************************)
VARIABLES
    input,                   \* the text of pi
    pos,                     \* pi.Index()
    start,                   \* start.Index
    pc,                      \* "start", "raw" (at StringUntil), "loop" (at loop:), "done"
    attrs,                   \* e.Attributes
    Contents,                \* e.Contents
    Range,                   \* e.Range
    sb,                      \* sb.String()
    stringLiteralDelimiter,
    inRegex,
    n, ok, err               \* the results of Parse, set when pc = "done"

vars == <<input, pos, start, pc, attrs, Contents, Range, sb,
          stringLiteralDelimiter, inRegex, n, ok, err>>

Init ==
    /\ \E in \in Inputs :
        /\ input = in.pre \o in.rest
        /\ pos = Len(in.pre)
        /\ start = Len(in.pre)
    /\ pc = "start"
    /\ attrs = <<>>
    /\ Contents = <<>>
    /\ Range = ZeroRange
    /\ sb = <<>>
    /\ stringLiteralDelimiter = jsQuoteNone
    /\ inRegex = FALSE
    /\ n = "nil"
    /\ ok = FALSE
    /\ err = ErrNil

\* return n, ok, err
Return(rn, rok, rerr) ==
    /\ n' = rn
    /\ ok' = rok
    /\ err' = rerr
    /\ pc' = "done"

\* Flushed without the test of sb.Len().
FlushedAlways ==
    Append(Contents, NewScriptContentsScriptCode(sb))

\* if sb.Len() > 0 { e.Contents = append(e.Contents, NewScriptContentsScriptCode(sb.String())) }
Flushed ==
    IF Len(sb) > 0 THEN Append(Contents, NewScriptContentsScriptCode(sb)) ELSE Contents

\* The opening tag, up to and including >, and the choice between raw text and
\* JavaScript by hasJavaScriptType(e.Attributes).
OpenTag ==
    /\ pc = "start"
    /\ LET r == ParseOpenTag(input, pos) IN
       /\ pos' = r.pos
       /\ attrs' = r.attrs
       /\ IF r.open
          THEN /\ pc' = IF hasJavaScriptType(r.attrs) THEN "loop" ELSE "raw"
               /\ UNCHANGED <<n, ok, err>>
          ELSE Return("nil", r.ok, r.err)
    /\ UNCHANGED <<input, start, Contents, Range, sb, stringLiteralDelimiter, inRegex>>

\* RawText without the jsEndTag.Parse that consumes the end tag.
RawTextKeepsEndTag ==
    /\ pc = "raw"
    /\ LET k == IndexFrom(input, pos, jsEndTag) IN
       IF k < 0
       THEN /\ Return("e", TRUE, ErrEndTag)
            /\ UNCHANGED <<pos, Contents>>
       ELSE /\ Contents' = Append(Contents, NewScriptContentsScriptCode(Slice(input, pos, k)))
            /\ pos' = k
            /\ Return("e", TRUE, ErrNil)
    /\ UNCHANGED <<input, start, attrs, Range, sb, stringLiteralDelimiter, inRegex>>

\* The contents of an element whose type is not JavaScript, as raw text.
RawText ==
    /\ pc = "raw"
    /\ LET k == IndexFrom(input, pos, jsEndTag) IN
       IF k < 0
       THEN /\ Return("e", TRUE, ErrEndTag)
            /\ UNCHANGED <<pos, Contents>>
       ELSE /\ Contents' = Append(Contents, NewScriptContentsScriptCode(Slice(input, pos, k)))
            /\ pos' = k + Len(jsEndTag)
            /\ Return("e", TRUE, ErrNil)
    /\ UNCHANGED <<input, start, attrs, Range, sb, stringLiteralDelimiter, inRegex>>

InLoop == pc = "loop"

\* The end tag looked for only outside of strings and regular expressions.
AtEndTagOutsideString ==
    /\ stringLiteralDelimiter = jsQuoteNone
    /\ ~inRegex
    /\ HasPrefixAt(input, pos, jsEndTag)

\* jsEndTag.Parse(pi) matches at the cursor.
AtEndTag == HasPrefixAt(input, pos, jsEndTag)

\* The flag of an expression taken from the regular expression state as well.
InsideStringLiteralOrRegex == stringLiteralDelimiter # jsQuoteNone \/ inRegex

\* stringLiteralDelimiter != jsQuoteNone
InsideStringLiteral == stringLiteralDelimiter # jsQuoteNone

\* What follows the loop: the last flush, e.Range and the return.
AfterLoop(p) ==
    /\ pos' = p
    /\ Contents' = Flushed
    /\ Range' = NewRange(start, p)
    /\ Return("e", TRUE, ErrNil)
    /\ UNCHANGED <<input, start, attrs, sb, stringLiteralDelimiter, inRegex>>

\* An iteration that finds the end tag at the cursor.
EndTag ==
    /\ InLoop
    /\ AtEndTag
    /\ AfterLoop(pos + Len(jsEndTag))

\* An iteration that finds a Go expression at the cursor, or an error in it.
GoExpression ==
    /\ InLoop
    /\ ~AtEndTag
    /\ LET code == goCodeInJavaScript(input, pos) IN
       /\ code.err # ErrNil \/ code.ok
       /\ IF code.err # ErrNil
          THEN /\ Return("nil", FALSE, code.err)
               /\ pos' = code.pos
               /\ UNCHANGED <<Contents, sb>>
          ELSE /\ Contents' = Append(Flushed,
                      NewScriptContentsGo(code.text, InsideStringLiteral))
               /\ sb' = <<>>
               /\ pos' = code.pos
               /\ UNCHANGED <<pc, n, ok, err>>
    /\ UNCHANGED <<input, start, attrs, Range, stringLiteralDelimiter, inRegex>>

NoGoExpression ==
    LET code == goCodeInJavaScript(input, pos) IN code.err = ErrNil /\ ~code.ok

\* Comment taking the comment as the end of a regular expression.
CommentEndsRegex ==
    /\ InLoop
    /\ ~AtEndTag
    /\ NoGoExpression
    /\ LET comment == jsComment(input, pos) IN
       /\ comment.ok
       /\ Contents' = Append(Flushed, NewScriptContentsScriptCode(comment.text))
       /\ sb' = <<>>
       /\ pos' = comment.pos
    /\ inRegex' = FALSE
    /\ UNCHANGED <<input, start, pc, attrs, Range, stringLiteralDelimiter, n, ok, err>>

\* An iteration that finds a comment at the cursor.
Comment ==
    /\ InLoop
    /\ ~AtEndTag
    /\ NoGoExpression
    /\ LET comment == jsComment(input, pos) IN
       /\ comment.ok
       /\ Contents' = Append(Flushed, NewScriptContentsScriptCode(comment.text))
       /\ sb' = <<>>
       /\ pos' = comment.pos
    /\ UNCHANGED <<input, start, pc, attrs, Range, stringLiteralDelimiter, inRegex, n, ok, err>>

\* NextInRegex that looks for a regular expression inside strings as well.
NextInRegexInString(c, s) ==
    IF ~inRegex /\ c = <<"/">> /\ isStartOfRegex(s) THEN TRUE
    ELSE IF inRegex /\ c = <<"/">>
         THEN IF Len(s) > 0 /\ s[Len(s)] # "\\" THEN FALSE ELSE inRegex
         ELSE inRegex

\* inRegex after the character c is read with the text s in sb.
NextInRegex(c, s) ==
    IF stringLiteralDelimiter = jsQuoteNone
    THEN IF ~inRegex /\ c = <<"/">> /\ isStartOfRegex(s) THEN TRUE
         ELSE IF inRegex /\ c = <<"/">>
              THEN IF Len(s) > 0 /\ s[Len(s)] # "\\" THEN FALSE ELSE inRegex
              ELSE inRegex
    ELSE inRegex

Quote(c) ==
    IF c = <<"'">> THEN jsQuoteSingle
    ELSE IF c = <<"\"">> THEN jsQuoteDouble
    ELSE IF c = <<jsQuoteBacktick>> THEN jsQuoteBacktick
    ELSE jsQuoteNone

\* NextDelimiter with every quote closing an open string.
NextDelimiterAnyQuote(c, r) ==
    IF ~r /\ Quote(c) # jsQuoteNone
    THEN IF stringLiteralDelimiter = jsQuoteNone THEN Quote(c) ELSE jsQuoteNone
    ELSE stringLiteralDelimiter

\* stringLiteralDelimiter after the character c is read, inRegex being r by then.
NextDelimiter(c, r) ==
    IF ~r /\ Quote(c) # jsQuoteNone
    THEN IF stringLiteralDelimiter = jsQuoteNone THEN Quote(c)
         ELSE IF stringLiteralDelimiter = Quote(c) THEN jsQuoteNone
         ELSE stringLiteralDelimiter
    ELSE stringLiteralDelimiter

\* An iteration that reads one character, or one escaped character.
Character ==
    /\ InLoop
    /\ ~AtEndTag
    /\ NoGoExpression
    /\ ~jsComment(input, pos).ok
    /\ LET c == jsCharacter(input, pos) IN
       /\ c.ok
       /\ inRegex' = NextInRegex(c.text, sb)
       /\ stringLiteralDelimiter' = NextDelimiter(c.text, inRegex')
       /\ sb' = sb \o c.text
       /\ pos' = c.pos
    /\ UNCHANGED <<input, start, pc, attrs, Contents, Range, n, ok, err>>

\* An iteration in which nothing can be read: the end of the input ends the loop.
EndOfInput ==
    /\ InLoop
    /\ ~AtEndTag
    /\ NoGoExpression
    /\ ~jsComment(input, pos).ok
    /\ ~jsCharacter(input, pos).ok
    /\ IF pos >= Len(input)
       THEN AfterLoop(pos)
       ELSE /\ Return("nil", FALSE, ErrContent)
            /\ UNCHANGED <<input, pos, start, attrs, Contents, Range, sb,
                           stringLiteralDelimiter, inRegex>>

Next ==
    \/ OpenTag
    \/ RawText
    \/ EndTag
    \/ GoExpression
    \/ Comment
    \/ Character
    \/ EndOfInput

Spec == Init /\ [][Next]_vars

(***************************************************************************)
(* What the properties below refer to.                                     *)
(***************************************************************************)
\* The opening tag of the call parsed: Parse went past >.
Opened == ParseOpenTag(input, start).open

\* The cursor right after the > of the opening tag.
bodyStart == ParseOpenTag(input, start).pos

\* The texts of the entries of cs, one after the other, as the plain-text
\* test joins them; an expression entry gives the source text it was read from.
RECURSIVE Joined(_)
Joined(cs) ==
    IF Len(cs) = 0 THEN <<>>
    ELSE (IF Len(cs[1].Value) > 0 THEN cs[1].Value[1] ELSE cs[1].GoCode[1])
         \o Joined(Tail(cs))

(***************************************************************************)
(* C1.  Once the opening tag is parsed, a call that returns without having *)
(* matched </script> (the content ran to the end of the input) returns an  *)
(* error, in the JavaScript loop as in the raw text scan.                  *)
(***************************************************************************)
C1_UnterminatedIsError ==
    [][ /\ pc \in {"raw", "loop"}
        /\ pc' = "done"
        /\ IF pc = "raw"
           THEN \A k \in pos..Len(input) : ~HasPrefixAt(input, k, jsEndTag)
           ELSE ~HasPrefixAt(input, pos, jsEndTag)
        => err' # ErrNil ]_vars

(***************************************************************************)
(* C2.  Contents never holds two adjacent Literal (script code) entries.   *)
(***************************************************************************)
C2_NoAdjacentLiterals ==
    \A i \in 1..(Len(Contents) - 1) :
        ~(Len(Contents[i].Value) > 0 /\ Len(Contents[i + 1].Value) > 0)

(***************************************************************************)
(* C2, amended.  Of two adjacent Literal entries at least one is the text  *)
(* of a comment, which begins with two slashes or with a slash and a star: *)
(* two runs of the pending buffer are never adjacent.                      *)
(***************************************************************************)
C2_AdjacentLiteralsAtComments ==
    \A i \in 1..(Len(Contents) - 1) :
        (Len(Contents[i].Value) > 0 /\ Len(Contents[i + 1].Value) > 0)
        => \E j \in {i, i + 1} :
              \/ HasPrefixAt(Contents[j].Value[1], 0, <<"/", "/">>)
              \/ HasPrefixAt(Contents[j].Value[1], 0, <<"/", "*">>)

\* A finished element, closed by its end tag, with a run of the buffer and
\* then a comment next to each other.
C2_Witness ==
    /\ pc = "done"
    /\ err = ErrNil
    /\ HasPrefixAt(input, pos - Len(jsEndTag), jsEndTag)
    /\ \E i \in 1..(Len(Contents) - 1) :
          /\ Len(Contents[i].Value) > 0
          /\ Len(Contents[i + 1].Value) > 0
          /\ ~HasPrefixAt(Contents[i].Value[1], 0, <<"/">>)
          /\ HasPrefixAt(Contents[i + 1].Value[1], 0, <<"/", "*">>)

(***************************************************************************)
(* C3.  Round trip: when the JavaScript loop ends in a successful return,  *)
(* the entries of Contents joined in order are exactly the input text from *)
(* the end of the opening tag to the cursor at which the scan stopped (the *)
(* start of the end tag, or the end of the input).                         *)
(***************************************************************************)
C3_RoundTrip ==
    [][ (pc = "loop" /\ pc' = "done" /\ err' = ErrNil)
        => Joined(Contents') = Slice(input, bodyStart, pos) ]_vars

\* A JavaScript element closed by its end tag with an escaped character in
\* its text, or with a comment and the whitespace after it.
C3_Witness ==
    /\ pc = "done"
    /\ Opened
    /\ hasJavaScriptType(attrs)
    /\ err = ErrNil
    /\ HasPrefixAt(input, pos - Len(jsEndTag), jsEndTag)
    /\ \/ \E i \in 1..Len(Contents) :
             /\ Len(Contents[i].Value) > 0
             /\ \E k \in 0..Len(Contents[i].Value[1]) :
                   HasPrefixAt(Contents[i].Value[1], k, <<"\\", "/">>)
       \/ \E i \in 1..Len(Contents) :
             /\ Len(Contents[i].Value) > 0
             /\ HasPrefixAt(Contents[i].Value[1], 0, <<"/", "*", "*", "/", "\n">>)

(***************************************************************************)
(* C4.  The element of a successful parse, JavaScript or raw text, has its *)
(* source span from the cursor of the call to the cursor at the return,    *)
(* which is the cursor right after the matched end tag.                    *)
(***************************************************************************)
C4_SourceSpan ==
    (pc = "done" /\ n = "e" /\ ok /\ err = ErrNil)
    => /\ Range.From = start
       /\ Range.To = pos

(***************************************************************************)
(* C5.  An iteration of the JavaScript loop that begins with the cursor at *)
(* the end tag ends the loop and the element, consuming the end tag,       *)
(* whatever stringLiteralDelimiter and inRegex are.                        *)
(***************************************************************************)
C5_EndTagStopsLoop ==
    [][ (pc = "loop" /\ HasPrefixAt(input, pos, jsEndTag))
        => /\ pc' = "done"
           /\ n' = "e" /\ ok' /\ err' = ErrNil
           /\ pos' = pos + Len(jsEndTag) ]_vars

\* The loop is at an end tag while a string is open.
C5_Witness ==
    /\ pc = "loop"
    /\ HasPrefixAt(input, pos, jsEndTag)
    /\ stringLiteralDelimiter # jsQuoteNone

C7_NoPartialResult ==
    (pc = "done" /\ Opened /\ err # ErrNil) => (n = "nil" /\ ~ok)

(***************************************************************************)
(* C8.  The content is taken as JavaScript exactly when no attribute is a  *)
(* constant attribute with a constant key equal to type without regard to *)
(* case, or the first such attribute has a value equal, without regard to  *)
(* case, to the empty string, text/javascript, javascript or module.       *)
(***************************************************************************)
C8_Classification ==
    (pc \in {"raw", "loop"})
    => LET lit(k) == /\ attrs[k].type = "ConstantAttribute"
                     /\ attrs[k].keyType = "ConstantAttributeKey"
                     /\ Fold(attrs[k].Name) = <<"t", "y", "p", "e">>
           js == { <<>>,
                   <<"t","e","x","t","/","j","a","v","a","s","c","r","i","p","t">>,
                   <<"j","a","v","a","s","c","r","i","p","t">>,
                   <<"m","o","d","u","l","e">> }
       IN (pc = "loop") <=>
            \/ \A k \in 1..Len(attrs) : ~lit(k)
            \/ \E k \in 1..Len(attrs) :
                  /\ lit(k)
                  /\ \A j \in 1..(k - 1) : ~lit(j)
                  /\ Fold(attrs[k].Value) \in js

\* Raw text chosen by a first type that is not JavaScript, a second type
\* that is JavaScript being ignored.
C8_Witness ==
    /\ pc = "raw"
    /\ Len(attrs) = 2
    /\ attrs[1].type = "ConstantAttribute" /\ attrs[2].type = "ConstantAttribute"
    /\ attrs[1].Name = TypeKey
    /\ attrs[1].Value = <<"j", "s", "o", "n">>
    /\ Fold(attrs[2].Name) = TypeKey
    /\ Fold(attrs[2].Value) = <<"m","o","d","u","l","e">>

(***************************************************************************)
(* C9.  Raw text: when the type is not JavaScript and the content has an   *)
(* end tag, Parse succeeds, Contents is the one Literal holding the text   *)
(* between > and the first end tag, the cursor is right after that end tag *)
(* and nothing of the JavaScript scanner has acted.                        *)
(***************************************************************************)
C9_RawText ==
    (pc = "done" /\ Opened /\ ~hasJavaScriptType(attrs))
    => \A k \in bodyStart..Len(input) :
          (/\ HasPrefixAt(input, k, jsEndTag)
           /\ \A j \in bodyStart..(k - 1) : ~HasPrefixAt(input, j, jsEndTag))
          => /\ n = "e" /\ ok /\ err = ErrNil
             /\ Contents = <<NewScriptContentsScriptCode(Slice(input, bodyStart, k))>>
             /\ pos = k + Len(jsEndTag)
             /\ sb = <<>>
             /\ stringLiteralDelimiter = jsQuoteNone
             /\ ~inRegex

\* A raw text element whose text has an expression in it and a second end
\* tag after the first.
C9_Witness ==
    /\ pc = "done"
    /\ Opened
    /\ ~hasJavaScriptType(attrs)
    /\ err = ErrNil
    /\ Len(Contents) = 1
    /\ \E k \in 0..Len(Contents[1].Value[1]) :
          HasPrefixAt(Contents[1].Value[1], k, <<"{","{","n","}","}">>)
    /\ HasPrefixAt(input, pos, jsEndTag)

(***************************************************************************)
(* C10.  An iteration of the JavaScript loop in which the expression       *)
(* grammar matches appends the pending buffer as a Literal if and only if  *)
(* it is not empty, then one Expression whose flag tells whether a string  *)
(* is open, and leaves the buffer empty; and content that is one           *)
(* expression gives the one Expression entry with the flag false.          *)
(***************************************************************************)
C10_Expression ==
    /\ [][ (/\ pc = "loop"
            /\ ~HasPrefixAt(input, pos, jsEndTag)
            /\ goCodeInJavaScript(input, pos).ok)
           => LET code == goCodeInJavaScript(input, pos)
                  entry == [Value |-> <<>>, GoCode |-> <<code.text>>,
                            InsideStringLiteral |-> stringLiteralDelimiter # jsQuoteNone]
              IN /\ Contents' = (IF sb = <<>> THEN Contents
                                 ELSE Contents \o <<NewScriptContentsScriptCode(sb)>>)
                                \o <<entry>>
                 /\ sb' = <<>>
                 /\ pos' = code.pos
                 /\ pc' = "loop" ]_vars
    /\ [] ( (/\ pc = "done"
             /\ Opened
             /\ hasJavaScriptType(attrs)
             /\ goCodeInJavaScript(input, bodyStart).ok
             /\ HasPrefixAt(input, goCodeInJavaScript(input, bodyStart).pos, jsEndTag))
            => /\ err = ErrNil
               /\ Len(Contents) = 1
               /\ Len(Contents[1].GoCode) = 1
               /\ Contents[1].InsideStringLiteral = FALSE )

\* An expression read while a string is open, after the pending buffer.
C10_Witness ==
    /\ pc = "loop"
    /\ sb = <<>>
    /\ Len(Contents) >= 2
    /\ Len(Contents[Len(Contents)].GoCode) = 1
    /\ Contents[Len(Contents)].InsideStringLiteral
    /\ Len(Contents[Len(Contents) - 1].Value) = 1

(***************************************************************************)
(* C11.  An iteration of the JavaScript loop with the cursor at two        *)
(* slashes or at a slash and a star, and not at the end tag or at an       *)
(* expression, consumes the whole comment: a line comment up to and with   *)
(* the first line break or up to the end of the input, a block comment up  *)
(* to and with the first star and slash or up to the end of the input and  *)
(* then the whitespace that follows.  It appends the pending buffer if not *)
(* empty and then the comment as a Literal of its own, and the loop goes   *)
(* on after the comment, end tags inside the comment being passed over.    *)
(***************************************************************************)
C11_Comment ==
    [][ (/\ pc = "loop"
         /\ ~HasPrefixAt(input, pos, jsEndTag)
         /\ ~HasPrefixAt(input, pos, <<"{", "{">>)
         /\ HasPrefixAt(input, pos, <<"/", "/">>) \/ HasPrefixAt(input, pos, <<"/", "*">>))
        => LET from == pos + 2
               brk(k) == IF HasPrefixAt(input, k, <<"\r", "\n">>) THEN 2
                         ELSE IF HasPrefixAt(input, k, <<"\n">>) THEN 1 ELSE 0
               lineStop == CHOOSE k \in from..Len(input) :
                              /\ k = Len(input) \/ brk(k) > 0
                              /\ \A j \in from..(k - 1) : brk(j) = 0
               closed == \E k \in from..Len(input) : HasPrefixAt(input, k, <<"*", "/">>)
               blockStop == IF closed
                            THEN 2 + CHOOSE k \in from..Len(input) :
                                    /\ HasPrefixAt(input, k, <<"*", "/">>)
                                    /\ \A j \in from..(k - 1) :
                                          ~HasPrefixAt(input, j, <<"*", "/">>)
                            ELSE Len(input)
               blank(k) == k < Len(input) /\ input[k + 1] \in {" ", "\t", "\n", "\r"}
               blockEnd == CHOOSE k \in blockStop..Len(input) :
                              /\ ~blank(k)
                              /\ \A j \in blockStop..(k - 1) : blank(j)
               end == IF HasPrefixAt(input, pos, <<"/", "/">>)
                      THEN lineStop + brk(lineStop) ELSE blockEnd
           IN /\ pc' = "loop"
              /\ pos' = end
              /\ sb' = <<>>
              /\ Contents' = (IF sb = <<>> THEN Contents
                              ELSE Contents \o <<NewScriptContentsScriptCode(sb)>>)
                             \o <<NewScriptContentsScriptCode(SubSeq(input, pos + 1, end))>> ]_vars

\* The loop right after a line comment that holds an end tag, with more text
\* to read after the comment.
C11_Witness ==
    /\ pc = "loop"
    /\ sb = <<>>
    /\ pos < Len(input)
    /\ Len(Contents) >= 1
    /\ Len(Contents[Len(Contents)].Value) = 1
    /\ HasPrefixAt(Contents[Len(Contents)].Value[1], 0, <<"/", "/">>)
    /\ \E k \in 2..Len(Contents[Len(Contents)].Value[1]) :
          HasPrefixAt(Contents[Len(Contents)].Value[1], k, jsEndTag)

(***************************************************************************)
(* C12.  isStartOfRegex(s) is true exactly when s without its trailing     *)
(* spaces, tabs, carriage returns and line feeds is empty, or ends with    *)
(* one of the keywords as the whole text or right after a whitespace       *)
(* character, or ends with one of the listed punctuation characters.  So   *)
(* a slash read outside strings and regular expressions sets inRegex       *)
(* exactly when the pending buffer is such a text.                         *)
(***************************************************************************)
C12_StartOfRegex ==
    [][ (/\ pc = "loop"
         /\ stringLiteralDelimiter = jsQuoteNone
         /\ ~inRegex
         /\ sb' = sb \o <<"/">>)
        => LET last == CHOOSE m \in 0..Len(sb) :
                          /\ m = 0 \/ sb[m] \notin {" ", "\t", "\r", "\n"}
                          /\ \A j \in (m + 1)..Len(sb) : sb[j] \in {" ", "\t", "\r", "\n"}
               text == SubSeq(sb, 1, last)
               wholeWord(kw) ==
                   /\ Len(kw) <= Len(text)
                   /\ SubSeq(text, Len(text) - Len(kw) + 1, Len(text)) = kw
                   /\ \/ Len(text) = Len(kw)
                      \/ text[Len(text) - Len(kw)] \in {" ", "\t", "\r", "\n"}
               expected ==
                   \/ text = <<>>
                   \/ \E k \in 1..Len(keywords) : wholeWord(keywords[k])
                   \/ /\ text # <<>>
                      /\ text[Len(text)] \in {"(", ",", "=", ":", "[", "!", "&", "|", "?", "{", ";"}
           IN /\ isStartOfRegex(sb) = expected
              /\ inRegex' = expected ]_vars

(***************************************************************************)
(* C13.  A character step that reads the single character slash while      *)
(* inRegex is true sets inRegex to false unless the last character of the  *)
(* pending buffer is a backslash, whatever the buffer holds; a step that   *)
(* reads the unit backslash plus slash leaves inRegex as it is.            *)
(***************************************************************************)
C13_RegexClose ==
    [][ /\ (pc = "loop" /\ inRegex /\ sb' = sb \o <<"/">>)
           => inRegex' = (sb # <<>> /\ sb[Len(sb)] = "\\")
        /\ (pc = "loop" /\ sb' = sb \o <<"\\", "/">>)
           => inRegex' = inRegex ]_vars

(***************************************************************************)
(* C14.  A character step that ends with inRegex false and whose unit is   *)
(* exactly one single quote, double quote or backquote opens a string      *)
(* with that delimiter if none was open, closes the string if that is the  *)
(* open delimiter, and leaves another open delimiter alone.  Every other   *)
(* unit, an escaped quote among them, and every quote read while inRegex   *)
(* is true after the step, leaves the delimiter as it is.                  *)
(***************************************************************************)
C14_QuoteTracking ==
    [][ (pc = "loop" /\ Len(sb') > Len(sb))
        => LET unit == SubSeq(sb', Len(sb) + 1, Len(sb'))
               quotes == {jsQuoteSingle, jsQuoteDouble, jsQuoteBacktick}
           IN IF ~inRegex' /\ Len(unit) = 1 /\ unit[1] \in quotes
              THEN stringLiteralDelimiter' =
                      (IF stringLiteralDelimiter = jsQuoteNone THEN unit[1]
                       ELSE IF stringLiteralDelimiter = unit[1] THEN jsQuoteNone
                       ELSE stringLiteralDelimiter)
              ELSE stringLiteralDelimiter' = stringLiteralDelimiter ]_vars

\* A string opened by a double quote stays open after a backquote inside it.
C14_Witness ==
    /\ pc = "loop"
    /\ stringLiteralDelimiter = jsQuoteDouble
    /\ Len(sb) >= 2
    /\ sb[Len(sb)] = jsQuoteBacktick

(***************************************************************************)
(* C15 as stated.  Whenever the character step runs with a backslash at    *)
(* the cursor, the generic backslash rule matches and the unit read is     *)
(* exactly the backslash and the character after it, whatever unicode or   *)
(* hexadecimal escape starts there.                                        *)
(***************************************************************************)
C15_EscapeUnits ==
    [][ (/\ pc = "loop"
         /\ Len(sb') > Len(sb)
         /\ HasPrefixAt(input, pos, <<"\\">>))
        => /\ jsBackslashEscape(input, pos).ok
           /\ pos' = pos + 2
           /\ sb' = sb \o SubSeq(input, pos + 1, pos + 2) ]_vars

(***************************************************************************)
(* C15 amended.  Whenever the character step runs with a backslash at the  *)
(* cursor and at least one character after it, the generic backslash rule  *)
(* matches and the unit read is exactly the backslash and the character    *)
(* after it, whatever unicode or hexadecimal escape starts there; with a   *)
(* backslash that is the last character of the input no escape rule        *)
(* matches and the unit is the backslash alone.                            *)
(***************************************************************************)
C15_EscapeUnitsBeforeEnd ==
    [][ (/\ pc = "loop"
         /\ Len(sb') > Len(sb)
         /\ HasPrefixAt(input, pos, <<"\\">>))
        => IF pos + 1 < Len(input)
           THEN /\ jsBackslashEscape(input, pos).ok
                /\ pos' = pos + 2
                /\ sb' = sb \o SubSeq(input, pos + 1, pos + 2)
           ELSE /\ ~jsEscapedCharacter(input, pos).ok
                /\ pos' = pos + 1
                /\ sb' = sb \o <<"\\">> ]_vars

\* The backslash and the u of a four-digit unicode escape have been read as
\* one unit, the digits are still to come.
C15_Witness ==
    /\ pc = "loop"
    /\ HasSuffix(sb, <<"\\", "u">>)
    /\ HasPrefixAt(input, pos - 2, <<"\\", "u", "1", "2", "3", "4">>)

(***************************************************************************)
(* C16.  In every state of the scanner inRegex and an open string          *)
(* delimiter are never both set: a regular expression starts only outside  *)
(* strings and no quote opens a string inside a regular expression.        *)
(***************************************************************************)
C16_RegexOrString ==
    ~(inRegex /\ stringLiteralDelimiter # jsQuoteNone)

\* Inside a string, a slash after an opening parenthesis has been read and
\* no regular expression has started.
C16_Witness ==
    /\ pc = "loop"
    /\ stringLiteralDelimiter = jsQuoteDouble
    /\ HasSuffix(sb, <<"(", "/">>)
    /\ ~inRegex

(***************************************************************************)
(* C17.  A slash read while the pending buffer holds nothing but           *)
(* whitespace sets inRegex only at the start of the script content, that   *)
(* is only when no Contents entry has been emitted yet; after an emitted   *)
(* expression or comment the slash is not taken as the start of content.   *)
(***************************************************************************)
C17_RegexAtStartOfContent ==
    [][ (/\ pc = "loop"
         /\ stringLiteralDelimiter = jsQuoteNone
         /\ ~inRegex
         /\ sb' = sb \o <<"/">>
         /\ \A j \in 1..Len(sb) : sb[j] \in {" ", "\t", "\r", "\n"}
         /\ inRegex')
        => Contents = <<>> ]_vars

(***************************************************************************)
(* C18.  Parse returns on every input: every step of Parse strictly        *)
(* lowers a natural number, the stage of the call (before the opening      *)
(* tag, in the content, returned) weighted over the characters left after  *)
(* the cursor, so a call makes at most Len(input) + 2 steps.  In           *)
(* particular every iteration of the JavaScript loop leaves the loop or    *)
(* moves the cursor strictly forward, and the cursor never leaves the      *)
(* input.                                                                  *)
(***************************************************************************)
C18_Termination ==
    /\ [](pos \in 0..Len(input))
    /\ [][pc = "loop" => (pc' = "done" \/ (pc' = "loop" /\ pos' > pos))]_vars
    /\ [][LET stage(p) == IF p = "start" THEN 2 ELSE IF p = "done" THEN 0 ELSE 1
              left(p, c) == stage(p) * (Len(input) + 1) + (Len(input) - c)
          IN /\ pc # "done"
             /\ left(pc', pos') < left(pc, pos)
             /\ left(pc', pos') >= 0]_vars

\* Parse has returned at the end of the input after a loop that emitted two
\* entries at least.
C18_Witness ==
    /\ pc = "done"
    /\ ok
    /\ pos = Len(input)
    /\ Len(Contents) >= 2

(***************************************************************************)
(* C19.  An iteration that recognizes an expression or a comment changes   *)
(* Contents, the buffer and the cursor only: the string delimiter and      *)
(* inRegex stay as they are.  An iteration that reads a character changes  *)
(* the buffer, the two flags and the cursor only: Contents stays as it is. *)
(***************************************************************************)
C19_Frame ==
    [][ (pc = "loop" /\ pc' = "loop")
        => IF /\ ~HasPrefixAt(input, pos, jsEndTag)
              /\ \/ HasPrefixAt(input, pos, <<"{", "{">>)
                 \/ HasPrefixAt(input, pos, <<"/", "/">>)
                 \/ HasPrefixAt(input, pos, <<"/", "*">>)
           THEN /\ Len(Contents') > Len(Contents)
                /\ stringLiteralDelimiter' = stringLiteralDelimiter
                /\ inRegex' = inRegex
                /\ UNCHANGED <<input, start, attrs, Range, n, ok, err>>
           ELSE /\ Len(sb') > Len(sb)
                /\ Contents' = Contents
                /\ UNCHANGED <<input, start, attrs, Range, n, ok, err>> ]_vars

\* The loop right after a comment or an expression inside a regular
\* expression: the buffer has been flushed and inRegex is still set.
C19_Witness ==
    /\ pc = "loop"
    /\ inRegex
    /\ sb = <<>>
    /\ Len(Contents) >= 2

(***************************************************************************)
(* C20.  In the JavaScript loop and after it no Literal entry of Contents  *)
(* has an empty text, and the element with nothing between the opening     *)
(* and the end tag is parsed with an empty Contents.                       *)
(***************************************************************************)
C20_NoEmptyLiteral ==
    /\ (pc \in {"loop", "done"} /\ hasJavaScriptType(attrs))
       => \A k \in 1..Len(Contents) :
             Contents[k].GoCode = <<>> => Len(Contents[k].Value[1]) >= 1
    /\ (pc = "done" /\ input = JavaScriptOpenTag \o jsEndTag)
       => (ok /\ err = ErrNil /\ n = "e" /\ Contents = <<>>)

\* The empty element has been parsed.
C20_Witness ==
    /\ pc = "done"
    /\ input = JavaScriptOpenTag \o jsEndTag
    /\ pos = Len(input)
    /\ Contents = <<>>
====
